---- MODULE Spec2Model ----
(***************************************************************************)
(* NEM12 Report Checker: the parsing and interval-diff engine of           *)
(* src/ui/app.ts (parseCSV, parseNem12Structure, parseAndCompareNem12).    *)
(*                                                                         *)
(* File contents are strings; a row is a sequence of cells (strings); the  *)
(* interval Map of parseNem12Structure is a sequence of entries in         *)
(* insertion order, each entry carrying the identity (ref) of its key      *)
(* object, because a JavaScript Map compares object keys by identity.      *)
(*                                                                         *)
(* Spec and SpecCase follow one call of parseAndCompareNem12, SpecScan the *)
(* loop of parseNem12Structure row by row, and SpecBatch the batch of      *)
(* handleCompare: each step of SpecBatch is one task of the event loop     *)
(* (a click, a FileReader event, a timer callback) together with the       *)
(* promise continuations that run before the next task.                    *)
(***************************************************************************)
EXTENDS Integers, Sequences, FiniteSets, TLC

VARIABLES
    beforeContent,   \* parseAndCompareNem12's argument beforeContent
    afterContent,    \* parseAndCompareNem12's argument afterContent
    pc,              \* position inside parseAndCompareNem12
    beforeData,      \* parseNem12Structure(parseCSV(beforeContent))
    afterData,       \* parseNem12Structure(parseCSV(afterContent))
    issues,          \* the issue list being built
    scanInput,       \* parseNem12Structure's argument rows
    scanPos,         \* the loop variable rowNum of parseNem12Structure
    scan,            \* the other locals of parseNem12Structure
    filePairs,       \* this.filePairs
    compareBtnDisabled, \* the disabled property of the button compareBtn
    pairResults,     \* this.pairResults
    runs,            \* the activations of handleCompare, with their locals
    tasks,           \* the activations of performPairComparison
    fileContent,     \* the text of the file given to parseCSV
    filePos,         \* position of the file between parseCSV and the scan
    csvContent,      \* the text that exportToCSV has built
    beforeFileInfos, \* this.beforeFileInfos
    afterFileInfos   \* this.afterFileInfos

compareVars == <<beforeContent, afterContent, pc, beforeData, afterData, issues>>
scanVars == <<scanInput, scanPos, scan>>
batchVars == <<filePairs, compareBtnDisabled, pairResults, runs, tasks>>

fileVars == <<fileContent, filePos>>
exportVars == <<csvContent>>
matchVars == <<beforeFileInfos, afterFileInfos>>

vars == <<compareVars, scanVars, batchVars, fileVars, exportVars, matchVars>>

----------------------------------------------------------------------------
(* Bounds of the model *)

\* number of data lines that follow the leading 200 line of a generated file
MaxRows == 2

\* number of lines of a file that parseNem12Structure scans row by row
MaxScanRows == 4

\* number of lines of a file that is tokenized and then scanned
MaxFileLines == 3

\* number of files in one selection, and the number of selected files kept
\* in this.beforeFileInfos and this.afterFileInfos up to which a further
\* selection is made
MaxSelected == 2
MaxFileInfos == 3

\* number of file pairs in this.filePairs
NumPairs == 2

\* number of times handleCompare is started
MaxRuns == 2

----------------------------------------------------------------------------
(* Strings *)

Char(s, i) == SubSeq(s, i, i)

Min(a, b) == IF a <= b THEN a ELSE b
Max(a, b) == IF a >= b THEN a ELSE b

\* the characters String.prototype.trim removes, as far as the inputs hold them
IsSpace(c) == c \in {" ", "\t", "\n", "\r", "\f"}

RECURSIVE SkipSpaceLeft(_, _)
SkipSpaceLeft(s, i) ==
    IF i <= Len(s) /\ IsSpace(Char(s, i)) THEN SkipSpaceLeft(s, i + 1) ELSE i

RECURSIVE SkipSpaceRight(_, _)
SkipSpaceRight(s, j) ==
    IF j >= 1 /\ IsSpace(Char(s, j)) THEN SkipSpaceRight(s, j - 1) ELSE j

\* String.prototype.trim
Trim(s) ==
    LET i == SkipSpaceLeft(s, 1)
        j == SkipSpaceRight(s, Len(s))
    IN  IF i > j THEN "" ELSE SubSeq(s, i, j)

\* index of the first occurrence of character c in s at or after i, 0 if none
RECURSIVE FindChar(_, _, _)
FindChar(s, c, i) ==
    IF i > Len(s) THEN 0
    ELSE IF Char(s, i) = c THEN i
    ELSE FindChar(s, c, i + 1)

\* (line.match(new RegExp('\\' + delim, 'g')) || []).length
RECURSIVE CountChar(_, _, _)
CountChar(s, c, i) ==
    LET k == FindChar(s, c, i)
    IN  IF k = 0 THEN 0 ELSE 1 + CountChar(s, c, k + 1)

\* String.prototype.split with a one-character separator
RECURSIVE Split(_, _)
Split(s, c) ==
    LET k == FindChar(s, c, 1)
    IN  IF k = 0 THEN <<s>>
        ELSE <<SubSeq(s, 1, k - 1)>> \o Split(SubSeq(s, k + 1, Len(s)), c)

\* content.split(/\r?\n/)
RECURSIVE SplitLines(_)
SplitLines(s) ==
    LET k == FindChar(s, "\n", 1)
        e == IF k > 1 /\ Char(s, k - 1) = "\r" THEN k - 2 ELSE k - 1
    IN  IF k = 0 THEN <<s>>
        ELSE <<SubSeq(s, 1, e)>> \o SplitLines(SubSeq(s, k + 1, Len(s)))

----------------------------------------------------------------------------
(* parseCSV *)

\* the candidate delimiters, in the order the code tries them
delimiters == <<",", "|", ";", "\t">>

\* the inner loop over delimiters.slice(1): a candidate replaces the best one
\* only when its count is strictly higher
RECURSIVE BestDelimiter(_, _, _, _)
BestDelimiter(line, i, bestDelimiter, bestCount) ==
    IF i > Len(delimiters) THEN bestDelimiter
    ELSE LET count == CountChar(line, delimiters[i], 1)
         IN  IF count > bestCount
             THEN BestDelimiter(line, i + 1, delimiters[i], count)
             ELSE BestDelimiter(line, i + 1, bestDelimiter, bestCount)

\* the first loop of parseCSV: the delimiter of the first non-blank line,
\* ',' when every line is blank
RECURSIVE DetectDelimiter(_, _)
DetectDelimiter(lines, i) ==
    IF i > Len(lines) THEN ","
    ELSE IF Trim(lines[i]) # ""
    THEN BestDelimiter(lines[i], 2, delimiters[1], CountChar(lines[i], delimiters[1], 1))
    ELSE DetectDelimiter(lines, i + 1)

\* the map callback: trim, then strip one pair of wrapping quotes
\* (startsWith and endsWith both hold for a lone quote character, and
\* slice(1, -1) of a one-character string is empty)
ParseCell(cell) ==
    LET trimmed == Trim(cell)
        n == Len(trimmed)
    IN  IF n >= 1 /\ (   (Char(trimmed, 1) = "\"" /\ Char(trimmed, n) = "\"")
                      \/ (Char(trimmed, 1) = "'" /\ Char(trimmed, n) = "'"))
        THEN (IF n >= 2 THEN SubSeq(trimmed, 2, n - 1) ELSE "")
        ELSE trimmed

ParseLine(line, delimiter) ==
    LET cells == Split(line, delimiter)
    IN  [i \in 1..Len(cells) |-> ParseCell(cells[i])]

\* the second loop of parseCSV: blank lines are skipped, so a row's position
\* in the result counts non-blank lines only
RECURSIVE ParseRows(_, _, _)
ParseRows(lines, i, delimiter) ==
    IF i > Len(lines) THEN <<>>
    ELSE IF Trim(lines[i]) = "" THEN ParseRows(lines, i + 1, delimiter)
    ELSE <<ParseLine(lines[i], delimiter)>> \o ParseRows(lines, i + 1, delimiter)

\* a tokenizer that detects the delimiter of each line anew
parseCSVPerLine(content) ==
    LET lines == SplitLines(content)
        nonBlank == SelectSeq(lines, LAMBDA l : Trim(l) # "")
    IN  [k \in 1..Len(nonBlank) |->
            ParseLine(nonBlank[k], DetectDelimiter(<<nonBlank[k]>>, 1))]

\* lines 776-818
parseCSV(content) ==
    LET lines == SplitLines(content)
    IN  ParseRows(lines, 1, DetectDelimiter(lines, 1))

----------------------------------------------------------------------------
(* parseNem12Structure *)

\* row[i] || dflt, with the code's 0-based index i
CellOr(row, i, dflt) ==
    IF i + 1 <= Len(row) /\ row[i + 1] # "" THEN row[i + 1] ELSE dflt

IsDigit(c) == c \in {"0", "1", "2", "3", "4", "5", "6", "7", "8", "9"}

DigitVal(c) ==
    CASE c = "0" -> 0 [] c = "1" -> 1 [] c = "2" -> 2 [] c = "3" -> 3
      [] c = "4" -> 4 [] c = "5" -> 5 [] c = "6" -> 6 [] c = "7" -> 7
      [] c = "8" -> 8 [] c = "9" -> 9

\* the digits of s from position i on, read as a decimal number after acc
RECURSIVE ParseDigits(_, _, _)
ParseDigits(s, i, acc) ==
    IF i <= Len(s) /\ IsDigit(Char(s, i))
    THEN ParseDigits(s, i + 1, acc * 10 + DigitVal(Char(s, i)))
    ELSE acc

\* parseInt(s, 10): leading white space, an optional sign, then the longest
\* run of digits; NaN when there is no digit
ParseInt(s) ==
    LET t == Trim(s)
        neg == Len(t) >= 1 /\ Char(t, 1) = "-"
        signed == Len(t) >= 1 /\ Char(t, 1) \in {"-", "+"}
        start == IF signed THEN 2 ELSE 1
    IN  IF start <= Len(t) /\ IsDigit(Char(t, start))
        THEN [nan |-> FALSE,
              val |-> IF neg THEN 0 - ParseDigits(t, start, 0)
                             ELSE ParseDigits(t, start, 0)]
        ELSE [nan |-> TRUE, val |-> 0]

qualityFlags == {"A", "V", "E", "F", "N", "S", "R", "C", "D"}

\* the scan for (i = row.length - 1; i >= 2; i--), 0-based i; -1 when no cell
\* is a quality flag
RECURSIVE FindQualityIdx(_, _)
FindQualityIdx(row, i) ==
    IF i < 2 THEN -1
    ELSE LET val == Trim(row[i + 1])
         IN  IF val # "" /\ Len(val) = 1 /\ val \in qualityFlags THEN i
             ELSE FindQualityIdx(row, i - 1)

\* an expected number of intervals that is not clamped to at least one
ExpectedCountUnclamped(intervalLength) ==
    IF intervalLength = 30 THEN 48
    ELSE (24 * 60) \div Max(1, intervalLength)

\* line 865: the expected number of intervals of one day
ExpectedCount(intervalLength) ==
    IF intervalLength = 30 THEN 48
    ELSE Max(1, (24 * 60) \div Max(1, intervalLength))

\* interval values that run up to and including the quality flag
RowValuesThroughFlag(row, intervalLength) ==
    LET qualityIdx == FindQualityIdx(row, Len(row) - 1)
        endIdx == Min(2 + ExpectedCount(intervalLength), Len(row))
        slice == IF qualityIdx > 2 THEN SubSeq(row, 3, qualityIdx + 1)
                 ELSE SubSeq(row, 3, endIdx)
    IN  [i \in 1..Len(slice) |-> Trim(slice[i])]

\* the interval values of a 300 row
RowValues(row, intervalLength) ==
    LET qualityIdx == FindQualityIdx(row, Len(row) - 1)
        expected == ExpectedCount(intervalLength)
        endIdx == Min(2 + expected, Len(row))
        slice == IF qualityIdx > 2 THEN SubSeq(row, 3, qualityIdx)
                 ELSE SubSeq(row, 3, endIdx)
    IN  [i \in 1..Len(slice) |-> Trim(slice[i])]

\* Key equality of the Map `intervals`: its keys are the object literals of
\* line 871, and a Map compares object keys by identity (SameValueZero)
SameKey(a, b) == a.ref = b.ref

\* Map.prototype.has
MapHas(m, key) == \E i \in 1..Len(m) : SameKey(m[i].key, key)

\* Map.prototype.get, where has(key) holds
MapGet(m, key) ==
    LET i == CHOOSE j \in 1..Len(m) : SameKey(m[j].key, key)
    IN  [value |-> m[i].value, rowNumber |-> m[i].rowNumber]

\* Map.prototype.set: an existing key keeps its place, a new one is appended
MapSet(m, key, reading) ==
    IF MapHas(m, key)
    THEN [i \in 1..Len(m) |->
            IF SameKey(m[i].key, key)
            THEN [key |-> m[i].key, value |-> reading.value,
                  rowNumber |-> reading.rowNumber]
            ELSE m[i]]
    ELSE Append(m, [key |-> key, value |-> reading.value,
                    rowNumber |-> reading.rowNumber])

\* the loop of lines 870-875 from idx on (0-based); nextRef is the identity
\* the next key object gets.  rowNum is the code's 0-based rowNum.
RECURSIVE StoreValues(_, _, _, _, _, _, _, _)
StoreValues(intervals, nextRef, values, idx, currentNmi, currentChannel, date, rowNum) ==
    IF idx >= Len(values) THEN [intervals |-> intervals, nextRef |-> nextRef]
    ELSE LET key == [ref |-> nextRef, nmi |-> currentNmi,
                     channel |-> currentChannel, date |-> date,
                     intervalIndex |-> idx]
             stored == IF ~MapHas(intervals, key) \/ MapGet(intervals, key).value = ""
                       THEN MapSet(intervals, key,
                                   [value |-> values[idx + 1], rowNumber |-> rowNum + 1])
                       ELSE intervals
         IN  StoreValues(stored, nextRef + 1, values, idx + 1,
                         currentNmi, currentChannel, date, rowNum)

\* the locals of parseNem12Structure before its loop (lines 824-828)
ScanInit ==
    [intervals |-> <<>>, nextRef |-> 1, firstRecordType |-> "",
     currentNmi |-> "", currentChannel |-> "", intervalLength |-> 30]

\* a meter context that keeps a zero or negative interval length
MeterContextOfUnchecked(st, row) ==
    LET intervalLen == ParseInt(Trim(CellOr(row, 8, CellOr(row, 7, "30"))))
    IN  [st EXCEPT
            !.currentNmi = Trim(CellOr(row, 1, "")),
            !.currentChannel =
                Trim(CellOr(row, 4, CellOr(row, 2, "UNKNOWN_CHANNEL"))),
            !.intervalLength =
                IF intervalLen.nan THEN 30 ELSE intervalLen.val]

\* the meter context of a 200 row (lines 840-844)
MeterContextOf(st, row) ==
    LET intervalLen == ParseInt(Trim(CellOr(row, 8, CellOr(row, 7, "30"))))
    IN  [st EXCEPT
            !.currentNmi = Trim(CellOr(row, 1, "")),
            !.currentChannel =
                Trim(CellOr(row, 4, CellOr(row, 2, "UNKNOWN_CHANNEL"))),
            !.intervalLength =
                IF intervalLen.nan \/ intervalLen.val <= 0 THEN 30
                ELSE intervalLen.val]

\* a 200 row that sets the context only while no NMI is current
SetMeterContextOnce(st, row) ==
    IF st.currentNmi = "" THEN MeterContextOf(st, row) ELSE st

\* lines 839-844: a 200 row replaces the current NMI, channel and interval
\* length
SetMeterContext(st, row) == MeterContextOf(st, row)

\* a context test that lets every 300 row through
HasMeterContextAlways(st) == TRUE

\* line 845: currentNmi && currentChannel
HasMeterContext(st) == st.currentNmi # "" /\ st.currentChannel # ""

\* one iteration of the loop of parseNem12Structure (lines 831-876)
ScanRow(st, row, rowNum) ==
    IF Len(row) = 0 THEN st
    ELSE
    LET recordType == Trim(row[1])
        st1 == IF st.firstRecordType = ""
               THEN [st EXCEPT !.firstRecordType = recordType] ELSE st
    IN  IF recordType = "200"
        THEN SetMeterContext(st1, row)
        ELSE IF recordType = "300" /\ HasMeterContext(st1)
        THEN LET date == Trim(CellOr(row, 1, ""))
             IN  IF date = "" THEN st1
                 ELSE LET r == StoreValues(st1.intervals, st1.nextRef,
                                           RowValues(row, st1.intervalLength), 0,
                                           st1.currentNmi, st1.currentChannel,
                                           date, rowNum)
                      IN  [st1 EXCEPT !.intervals = r.intervals,
                                      !.nextRef = r.nextRef]
        ELSE st1

RECURSIVE ScanRows(_, _, _)
ScanRows(st, rows, rowNum) ==
    IF rowNum >= Len(rows) THEN st
    ELSE ScanRows(ScanRow(st, rows[rowNum + 1], rowNum), rows, rowNum + 1)

parseNem12Structure(rows) ==
    LET st == ScanRows(ScanInit, rows, 0)
    IN  [firstRecordType |-> st.firstRecordType, intervals |-> st.intervals]

----------------------------------------------------------------------------
(* parseAndCompareNem12 *)

\* String.prototype.toUpperCase on the letters a-z
LowerCaseLetters == "abcdefghijklmnopqrstuvwxyz"
UpperCaseLetters == "ABCDEFGHIJKLMNOPQRSTUVWXYZ"

UpperChar(c) ==
    LET i == FindChar(LowerCaseLetters, c, 1)
    IN  IF i = 0 THEN c ELSE Char(UpperCaseLetters, i)

RECURSIVE ToUpperCase(_)
ToUpperCase(s) ==
    IF Len(s) = 0 THEN ""
    ELSE UpperChar(Char(s, 1)) \o ToUpperCase(SubSeq(s, 2, Len(s)))

\* a key string that folds letter case, which the program does not do
KeyStrIgnoringCase(key) ==
    <<ToUpperCase(key.nmi), ToUpperCase(key.channel), ToUpperCase(key.date),
      key.intervalIndex>>

\* JSON.stringify(key): the four own properties of the key object, in the
\* order the literal lists them; the object's identity is no part of it
KeyStr(key) == <<key.nmi, key.channel, key.date, key.intervalIndex>>

\* Array.from(data.intervals.entries()).map(...), lines 680-689
Entries(data) ==
    [i \in 1..Len(data.intervals) |->
        [keyStr |-> KeyStr(data.intervals[i].key),
         key |-> data.intervals[i].key,
         interval |-> [value |-> data.intervals[i].value,
                       rowNumber |-> data.intervals[i].rowNumber]]]

\* new Set(entries.map(e => e.keyStr)), lines 692-693
KeySet(entries) == {entries[i].keyStr : i \in 1..Len(entries)}

\* a STRUCTURE issue (lines 648-660, 663-675); a template string is the
\* sequence of its literal parts and its holes
StructureIssue(sr, side, firstRecordType) ==
    [sr |-> sr, issue_type |-> "STRUCTURE", nmi |-> "", record_type |-> "",
     channel |-> "", date |-> "", field_name |-> "",
     after_cell_location |-> <<>>, before_value |-> "", after_value |-> "",
     details |-> <<side, " first record is ", firstRecordType>>]

\* CompareStructures with the second test chained by `else if`: the AFTER
\* side is looked at only when the BEFORE side starts with its header
CompareStructuresElseIf(iss, before, after) ==
    IF before.firstRecordType # "100"
    THEN Append(iss, StructureIssue(Len(iss) + 1, "BEFORE", before.firstRecordType))
    ELSE IF after.firstRecordType # "100"
    THEN Append(iss, StructureIssue(Len(iss) + 1, "AFTER", after.firstRecordType))
    ELSE iss

\* lines 646-676
CompareStructures(iss, before, after) ==
    LET iss1 == IF before.firstRecordType # "100"
                THEN Append(iss, StructureIssue(Len(iss) + 1, "BEFORE",
                                                before.firstRecordType))
                ELSE iss
    IN  IF after.firstRecordType # "100"
        THEN Append(iss1, StructureIssue(Len(iss1) + 1, "AFTER",
                                         after.firstRecordType))
        ELSE iss1

\* lines 699-711
MissingIssue(sr, entry) ==
    [sr |-> sr, issue_type |-> "MISSING", nmi |-> entry.key.nmi,
     record_type |-> "300", channel |-> entry.key.channel,
     date |-> entry.key.date, field_name |-> "",
     after_cell_location |->
        <<"row ", entry.interval.rowNumber, ", interval ", entry.key.intervalIndex>>,
     before_value |-> entry.interval.value, after_value |-> "",
     details |-> <<"Interval present in BEFORE file but missing in AFTER file for NMI ",
                   entry.key.nmi, ", channel ", entry.key.channel, ", date ",
                   entry.key.date, ", interval ", entry.key.intervalIndex, ".">>]

\* lines 719-731
ExtraIssue(sr, entry) ==
    [sr |-> sr, issue_type |-> "EXTRA", nmi |-> entry.key.nmi,
     record_type |-> "300", channel |-> entry.key.channel,
     date |-> entry.key.date, field_name |-> "",
     after_cell_location |->
        <<"row ", entry.interval.rowNumber, ", interval ", entry.key.intervalIndex>>,
     before_value |-> "", after_value |-> entry.interval.value,
     details |-> <<"Extra interval present only in AFTER file (not in BEFORE file) for NMI ",
                   entry.key.nmi, ", channel ", entry.key.channel, ", date ",
                   entry.key.date, ", interval ", entry.key.intervalIndex, ".">>]

\* lines 747-759
MismatchIssue(sr, beforeEntry, afterEntry, beforeFileName, afterFileName) ==
    [sr |-> sr, issue_type |-> "VALUE_MISMATCH", nmi |-> beforeEntry.key.nmi,
     record_type |-> "300", channel |-> beforeEntry.key.channel,
     date |-> beforeEntry.key.date, field_name |-> "IntervalValue",
     after_cell_location |->
        <<"row ", afterEntry.interval.rowNumber, ", interval ",
          beforeEntry.key.intervalIndex>>,
     before_value |-> beforeEntry.interval.value,
     after_value |-> afterEntry.interval.value,
     details |-> <<"Value mismatch between BEFORE and AFTER files (",
                   beforeFileName, "=", beforeEntry.interval.value, " vs ",
                   afterFileName, "=", afterEntry.interval.value, ").">>]

\* the loop of lines 697-713 from entry i on
RECURSIVE MissingLoop(_, _, _, _)
MissingLoop(iss, beforeEntries, afterKeySet, i) ==
    IF i > Len(beforeEntries) THEN iss
    ELSE IF beforeEntries[i].keyStr \notin afterKeySet
    THEN MissingLoop(Append(iss, MissingIssue(Len(iss) + 1, beforeEntries[i])),
                     beforeEntries, afterKeySet, i + 1)
    ELSE MissingLoop(iss, beforeEntries, afterKeySet, i + 1)

\* the loop of lines 717-733 from entry i on
RECURSIVE ExtraLoop(_, _, _, _)
ExtraLoop(iss, afterEntries, beforeKeySet, i) ==
    IF i > Len(afterEntries) THEN iss
    ELSE IF afterEntries[i].keyStr \notin beforeKeySet
    THEN ExtraLoop(Append(iss, ExtraIssue(Len(iss) + 1, afterEntries[i])),
                   afterEntries, beforeKeySet, i + 1)
    ELSE ExtraLoop(iss, afterEntries, beforeKeySet, i + 1)

\* afterEntryMap.get(keyStr), lines 738-741 and 745: the map is keyed by the
\* string, and each set of an equal string replaces the entry, so the last
\* entry of afterEntries with that string is the one found
AfterEntryMapGet(afterEntries, keyStr) ==
    LET last == CHOOSE j \in 1..Len(afterEntries) :
                    /\ afterEntries[j].keyStr = keyStr
                    /\ \A k \in (j + 1)..Len(afterEntries) :
                            afterEntries[k].keyStr # keyStr
    IN  afterEntries[last]

\* the loop of lines 743-762 from entry i on
RECURSIVE MismatchLoop(_, _, _, _, _, _)
MismatchLoop(iss, beforeEntries, afterEntries, beforeFileName, afterFileName, i) ==
    IF i > Len(beforeEntries) THEN iss
    ELSE IF /\ beforeEntries[i].keyStr \in KeySet(afterEntries)
            /\ beforeEntries[i].interval.value #
                  AfterEntryMapGet(afterEntries, beforeEntries[i].keyStr).interval.value
    THEN MismatchLoop(
            Append(iss, MismatchIssue(Len(iss) + 1, beforeEntries[i],
                         AfterEntryMapGet(afterEntries, beforeEntries[i].keyStr),
                         beforeFileName, afterFileName)),
            beforeEntries, afterEntries, beforeFileName, afterFileName, i + 1)
    ELSE MismatchLoop(iss, beforeEntries, afterEntries,
                      beforeFileName, afterFileName, i + 1)

\* CompareIntervals with the EXTRA loop run before the MISSING loop
CompareIntervalsExtraFirst(iss, before, after, beforeFileName, afterFileName) ==
    LET beforeEntries == Entries(before)
        afterEntries == Entries(after)
        extra == ExtraLoop(iss, afterEntries, KeySet(beforeEntries), 1)
        missing == MissingLoop(extra, beforeEntries, KeySet(afterEntries), 1)
    IN  MismatchLoop(missing, beforeEntries, afterEntries,
                     beforeFileName, afterFileName, 1)

\* CompareIntervals with the EXTRA check made against no BEFORE key at all
CompareIntervalsExtraUnfiltered(iss, before, after, beforeFileName, afterFileName) ==
    LET beforeEntries == Entries(before)
        afterEntries == Entries(after)
        missing == MissingLoop(iss, beforeEntries, KeySet(afterEntries), 1)
        extra == ExtraLoop(missing, afterEntries, {}, 1)
    IN  MismatchLoop(extra, beforeEntries, afterEntries,
                     beforeFileName, afterFileName, 1)

\* lines 678-762: the three interval checks, in the code's order
CompareIntervals(iss, before, after, beforeFileName, afterFileName) ==
    LET beforeEntries == Entries(before)
        afterEntries == Entries(after)
        missing == MissingLoop(iss, beforeEntries, KeySet(afterEntries), 1)
        extra == ExtraLoop(missing, afterEntries, KeySet(beforeEntries), 1)
    IN  MismatchLoop(extra, beforeEntries, afterEntries,
                     beforeFileName, afterFileName, 1)

\* the comparison of two parsed datasets (lines 646-762)
CompareData(before, after, beforeFileName, afterFileName) ==
    CompareIntervals(CompareStructures(<<>>, before, after), before, after,
                     beforeFileName, afterFileName)

\* parseAndCompareNem12 as a function of its arguments
parseAndCompareNem12(bContent, aContent, beforeFileName, afterFileName) ==
    CompareData(parseNem12Structure(parseCSV(bContent)),
                parseNem12Structure(parseCSV(aContent)),
                beforeFileName, afterFileName)

----------------------------------------------------------------------------
(* The inputs: NEM12 files of a leading line, a 200 line and data lines *)

\* a file starts with its 100 header or, malformed, without one
Headers == {"100\n", ""}

MeterLine == "200,N,E"

\* 300 lines for two dates with one or two interval values and a quality
\* flag, the values differing or empty, and a 200 line of a second meter
DataLines ==
    {"300,D,5.0,A", "300,D,6.0,A", "300,D,,A", "300,D,5.0,6.0,A",
     "300,F,5.0,A", "200,M,E"}

Bodies == UNION {[1..n -> DataLines] : n \in 0..MaxRows}

RECURSIVE JoinLines(_, _)
JoinLines(body, i) ==
    IF i > Len(body) THEN "" ELSE "\n" \o body[i] \o JoinLines(body, i + 1)

Files == {h \o MeterLine \o JoinLines(b, 1) : h \in Headers, b \in Bodies}

BeforeFileName == "before.csv"
AfterFileName == "after.csv"

NoData == [firstRecordType |-> "", intervals |-> <<>>]

\* files of one meter and one reading whose NMI, channel or date is written
\* in upper or in lower case
CaseMeterLines == {"200,N,E", "200,n,E", "200,N,e"}
CaseDataLines == {"300,D,5.0,A", "300,d,5.0,A", "300,D,6.0,A"}
CaseFiles ==
    {"100\n" \o m \o "\n" \o d : m \in CaseMeterLines, d \in CaseDataLines}

\* the dataset of each input file: parseCSV, then parseNem12Structure
\* files whose comparison is exported: a reference file, one with another
\* value, one without header and with another date, one without readings,
\* a pipe-delimited one whose NMI and value hold a comma, and one whose
\* value holds a quote character
ExportFiles ==
    {"100\n200,N,E\n300,D,5.0,A", "100\n200,N,E\n300,D,6.0,A",
     "200,N,E\n300,F,5.0,A", "100\n200,N,E",
     "100|x\n200|N,1|E\n300|D|5,0|A", "100\n200,N,E\n300,D,5\"0,A"}

DatasetOf ==
    [f \in Files \cup CaseFiles \cup ExportFiles |-> parseNem12Structure(parseCSV(f))]

\* no scan of parseNem12Structure is being followed
ScanIdle ==
    /\ scanInput = <<>>
    /\ scanPos = 0
    /\ scan = ScanInit

\* no call of parseAndCompareNem12 is being followed
CompareIdle ==
    /\ beforeContent = ""
    /\ afterContent = ""
    /\ pc = "idle"
    /\ beforeData = NoData
    /\ afterData = NoData
    /\ issues = <<>>

\* no file is being tokenized
FileIdle ==
    /\ fileContent = ""
    /\ filePos = "idle"

\* nothing has been exported
ExportIdle == csvContent = ""

\* no file has been selected
MatchIdle ==
    /\ beforeFileInfos = <<>>
    /\ afterFileInfos = <<>>

\* no file pair is loaded and handleCompare has not been started
BatchIdle ==
    /\ filePairs = <<>>
    /\ compareBtnDisabled = TRUE
    /\ pairResults = <<>>
    /\ runs = <<>>
    /\ tasks = {}

----------------------------------------------------------------------------
(* One call of parseAndCompareNem12 *)

Init ==
    /\ beforeContent \in Files
    /\ afterContent \in Files
    /\ pc = "start"
    /\ beforeData = NoData
    /\ afterData = NoData
    /\ issues = <<>>
    /\ ScanIdle
    /\ BatchIdle
    /\ FileIdle
    /\ ExportIdle
    /\ MatchIdle

\* lines 635-642: both files are tokenized and parsed before any comparison
ParseFiles ==
    /\ pc = "start"
    /\ beforeData' = DatasetOf[beforeContent]
    /\ afterData' = DatasetOf[afterContent]
    /\ pc' = "parsed"
    /\ UNCHANGED <<beforeContent, afterContent, issues>>
    /\ UNCHANGED <<scanVars, batchVars, fileVars, exportVars, matchVars>>

\* lines 646-676
CheckStructures ==
    /\ pc = "parsed"
    /\ issues' = CompareStructures(issues, beforeData, afterData)
    /\ pc' = "structures"
    /\ UNCHANGED <<beforeContent, afterContent, beforeData, afterData>>
    /\ UNCHANGED <<scanVars, batchVars, fileVars, exportVars, matchVars>>

\* lines 678-773: the interval checks, then the issue list is returned
CheckIntervals ==
    /\ pc = "structures"
    /\ issues' = CompareIntervals(issues, beforeData, afterData,
                                  BeforeFileName, AfterFileName)
    /\ pc' = "done"
    /\ UNCHANGED <<beforeContent, afterContent, beforeData, afterData>>
    /\ UNCHANGED <<scanVars, batchVars, fileVars, exportVars, matchVars>>

Next == ParseFiles \/ CheckStructures \/ CheckIntervals

Spec == Init /\ [][Next]_vars

\* the same call on files whose keys differ in letter case
InitCase ==
    /\ beforeContent \in CaseFiles
    /\ afterContent \in CaseFiles
    /\ pc = "start"
    /\ beforeData = NoData
    /\ afterData = NoData
    /\ issues = <<>>
    /\ ScanIdle
    /\ BatchIdle
    /\ FileIdle
    /\ ExportIdle
    /\ MatchIdle

SpecCase == InitCase /\ [][Next]_vars

----------------------------------------------------------------------------
(* exportToCSV (lines 1274-1385) *)

\* index of the first occurrence of character c in s between the positions
\* lo and hi, 0 if none; the search halves the range, so that long texts
\* are searched without deep nesting
RECURSIVE IndexIn(_, _, _, _)
IndexIn(s, c, lo, hi) ==
    IF lo > hi THEN 0
    ELSE IF lo = hi THEN (IF Char(s, lo) = c THEN lo ELSE 0)
    ELSE LET mid == (lo + hi) \div 2
             left == IndexIn(s, c, lo, mid)
         IN  IF left # 0 THEN left ELSE IndexIn(s, c, mid + 1, hi)

\* String.prototype.includes for one character
Includes(s, c) == IndexIn(s, c, 1, Len(s)) # 0

\* String.prototype.replace(/"/g, '""')
RECURSIVE DoubleQuotes(_)
DoubleQuotes(field) ==
    LET k == IndexIn(field, "\"", 1, Len(field))
    IN  IF k = 0 THEN field
        ELSE SubSeq(field, 1, k) \o "\"" \o DoubleQuotes(SubSeq(field, k + 1, Len(field)))

\* lines 1461-1467
escapeCSVField(field) ==
    IF Includes(field, ",") \/ Includes(field, "\n") \/ Includes(field, "\"")
    THEN "\"" \o DoubleQuotes(field) \o "\""
    ELSE field

\* the string of the template literal `row ${rowNumber}, interval ${idx}`
\* (lines 706, 726, 754), the empty string of a STRUCTURE issue
LocationText(loc) ==
    IF Len(loc) = 0 THEN ""
    ELSE loc[1] \o ToString(loc[2]) \o loc[3] \o ToString(loc[4])

RECURSIVE ConcatStrings(_, _)
ConcatStrings(parts, i) ==
    IF i > Len(parts) THEN "" ELSE parts[i] \o ConcatStrings(parts, i + 1)

\* the string of the template literal of an issue's details (lines 661, 675,
\* 709, 729, 757); the interval index of a MISSING or EXTRA issue is a number
DetailsText(detail) ==
    IF detail.issue_type \in {"MISSING", "EXTRA"}
    THEN ConcatStrings(SubSeq(detail.details, 1, 7), 1)
            \o ToString(detail.details[8]) \o detail.details[9]
    ELSE ConcatStrings(detail.details, 1)

\* Array.prototype.join(',')
RECURSIVE JoinComma(_, _)
JoinComma(row, i) ==
    IF i > Len(row) THEN ""
    ELSE row[i] \o (IF i < Len(row) THEN "," ELSE "") \o JoinComma(row, i + 1)

\* lines 1346-1359: the cells of one detail row
ExportRow(detail) ==
    <<ToString(detail.sr), detail.issue_type, detail.nmi, detail.record_type,
      detail.channel, detail.date, detail.field_name,
      LocationText(detail.after_cell_location), detail.before_value,
      detail.after_value, escapeCSVField(DetailsText(detail))>>

\* lines 1345-1361: the detail rows
RECURSIVE ExportRows(_, _)
ExportRows(dataToExport, i) ==
    IF i > Len(dataToExport) THEN ""
    ELSE JoinComma(ExportRow(dataToExport[i]), 1) \o "\n"
            \o ExportRows(dataToExport, i + 1)

\* the metadata of the exported result (lines 613-624), with one reading of
\* the clock
ExportMetadata ==
    [reportName |-> "NEM12 Comparison", reportDate |-> "2024-01-01",
     reportTime |-> "00:00:00", beforeReport |-> BeforeFileName,
     afterReport |-> AfterFileName]

\* lines 1330-1361: the text that exportToCSV builds
ExportText(dataToExport, metadata) ==
    "Report_Name," \o metadata.reportName \o "\n"
    \o "Report_Date," \o metadata.reportDate \o "\n"
    \o "Report_Time," \o metadata.reportTime \o "\n"
    \o "Before_Report," \o metadata.beforeReport \o "\n"
    \o "After_Report," \o metadata.afterReport \o "\n"
    \o "\n"
    \o "Sr,issue_type,nmi,record_type,channel,date,field_name,after_cell_location ("
    \o metadata.afterReport \o "),before_value,after_value,details\n"
    \o ExportRows(dataToExport, 1)

InitExport ==
    /\ beforeContent \in ExportFiles
    /\ afterContent \in ExportFiles
    /\ pc = "start"
    /\ beforeData = NoData
    /\ afterData = NoData
    /\ issues = <<>>
    /\ ScanIdle
    /\ BatchIdle
    /\ FileIdle
    /\ ExportIdle
    /\ MatchIdle

\* lines 1274-1385: the issue list of the finished comparison is exported;
\* with an empty list an alert is shown and nothing is built (lines 1325-1328)
ExportToCSV ==
    /\ pc = "done"
    /\ issues # <<>>
    /\ csvContent' = ExportText(issues, ExportMetadata)
    /\ UNCHANGED <<compareVars, scanVars, batchVars, fileVars, matchVars>>

NextExport == Next \/ ExportToCSV

SpecExport == InitExport /\ [][NextExport]_vars

----------------------------------------------------------------------------
(* One call of parseNem12Structure, row by row *)

\* the lines of the scanned files: 200 lines of two meters (the second with
\* an interval length of 720 minutes in cell 7), of a meter without NMI and
\* of a meter with an interval length above one day, 300 lines with the
\* quality flag last, in the middle, in cell 2 or absent, and a 400 line
ScanLines ==
    {"200,N,E", "200,M,B,,,,,720", "200,,E", "200,N,E,,,,,2000",
     "300,D,1,2,A", "300,D,1,A,2", "300,D,A", "300,D,1,2,3", "400,D,1,A"}

RECURSIVE JoinWith(_, _)
JoinWith(lines, i) ==
    IF i > Len(lines) THEN ""
    ELSE lines[i] \o (IF i < Len(lines) THEN "\n" ELSE "") \o JoinWith(lines, i + 1)

ScanFiles ==
    {JoinWith(l, 1) : l \in UNION {[1..n -> ScanLines] : n \in 1..MaxScanRows}}

InitScan ==
    /\ \E f \in ScanFiles : scanInput = parseCSV(f)
    /\ scanPos = 0
    /\ scan = ScanInit
    /\ CompareIdle
    /\ BatchIdle
    /\ FileIdle
    /\ ExportIdle
    /\ MatchIdle

\* lines 830-876: one iteration of the loop over the rows
ScanNextRow ==
    /\ scanPos < Len(scanInput)
    /\ scan' = ScanRow(scan, scanInput[scanPos + 1], scanPos)
    /\ scanPos' = scanPos + 1
    /\ UNCHANGED <<scanInput, compareVars, batchVars, fileVars, exportVars, matchVars>>

NextScan == ScanNextRow

SpecScan == InitScan /\ [][NextScan]_vars

----------------------------------------------------------------------------
(* A file is tokenized by parseCSV and its rows are scanned by
   parseNem12Structure (lines 635-642 for one file). *)

\* a blank line, a line with an empty first cell, a 100 line, 200 lines
\* that state channel and interval length in cells 2, 4, 7 and 8 or leave
\* them out, lines with pipes, semicolons and tabs, and 300 lines
FileLines ==
    {"", ",x", "100", "200,N,E", "200|N|E,F", "300;D,1", "200\tM\tB",
     "200,N,,,B,,,15,5", "200,N,,,,,,0", "200,N,\" \",,,,,-5",
     "200,N,E,,,,,15m,x", "200,N,E,,,,,15m", "300,D,1,A"}

FileTexts ==
    {JoinWith(l, 1) : l \in UNION {[1..n -> FileLines] : n \in 1..MaxFileLines}}

InitFile ==
    /\ fileContent \in FileTexts
    /\ filePos = "read"
    /\ ScanIdle
    /\ CompareIdle
    /\ BatchIdle
    /\ ExportIdle
    /\ MatchIdle

\* lines 635 and 776-818: the text is tokenized
TokenizeFile ==
    /\ filePos = "read"
    /\ scanInput' = parseCSV(fileContent)
    /\ filePos' = "tokenized"
    /\ UNCHANGED <<fileContent, scanPos, scan>>
    /\ UNCHANGED <<compareVars, batchVars, exportVars, matchVars>>

NextFile == TokenizeFile \/ ScanNextRow

SpecFile == InitFile /\ [][NextFile]_vars

----------------------------------------------------------------------------
(* handleCompare and performPairComparison *)

\* The File objects of the model: two text files with NEM12 content, a file
\* of size zero, a file of white space only, and a file whose read fails
ContentA == "100\n200,N,E\n300,D,5.0,A"
ContentB == "200,N,E\n300,D,6.0,A"

TextFile(content) ==
    [size |-> Len(content), content |-> content, readable |-> TRUE]

FileA == TextFile(ContentA)
FileB == TextFile(ContentB)
ZeroFile == TextFile("")
BlankFile == TextFile(" \n")
UnreadableFile ==
    [size |-> Len(ContentA), content |-> ContentA, readable |-> FALSE]

\* the BEFORE and AFTER file of a pair
PairFiles ==
    {<<FileA, FileB>>, <<ZeroFile, FileA>>, <<BlankFile, FileA>>,
     <<FileA, BlankFile>>, <<UnreadableFile, BlankFile>>}

\* the n-th FilePair as autoMatchFiles creates it (lines 386-391)
FilePair(n, files) ==
    [id |-> "pair_" \o ToString(n),
     enabled |-> TRUE,
     before |-> [file |-> files[1], name |-> "before_" \o ToString(n) \o ".csv"],
     after |-> [file |-> files[2], name |-> "after_" \o ToString(n) \o ".csv"]]

\* this.filePairs.filter(p => p.enabled), as the positions of the pairs in
\* this.filePairs from position n on
RECURSIVE EnabledPairs(_, _)
EnabledPairs(pairs, n) ==
    IF n > Len(pairs) THEN <<>>
    ELSE (IF pairs[n].enabled THEN <<n>> ELSE <<>>) \o EnabledPairs(pairs, n + 1)

\* lines 568-574: the message of the size check, "" when both sizes pass
SizeError(pair) ==
    IF pair.before.file.size = 0
    THEN "BEFORE file is empty: " \o pair.before.name
    ELSE IF pair.after.file.size = 0
    THEN "AFTER file is empty: " \o pair.after.name
    ELSE ""

\* lines 580-590: the message thrown when readFileContent rejects; the
\* FileReader rejects with its error event, which is not an Error
ReadError(side, info) ==
    "Failed to read " \o side \o " file (" \o info.name
        \o "): [object ProgressEvent]"

\* a content check that tests the content for emptiness without trimming it
ValidateContentUntrimmed(pair) ==
    IF pair.before.file.content = ""
    THEN "BEFORE file content is empty: " \o pair.before.name
    ELSE IF pair.after.file.content = ""
    THEN "AFTER file content is empty: " \o pair.after.name
    ELSE ""

\* lines 592-598: the message of the content check, "" when both pass
ValidateContent(pair) ==
    IF pair.before.file.content = "" \/ Len(Trim(pair.before.file.content)) = 0
    THEN "BEFORE file content is empty: " \o pair.before.name
    ELSE IF pair.after.file.content = "" \/ Len(Trim(pair.after.file.content)) = 0
    THEN "AFTER file content is empty: " \o pair.after.name
    ELSE ""

\* the metadata of a result, without its report name and its clock readings
Metadata(pair) ==
    [beforeReport |-> pair.before.name, afterReport |-> pair.after.name]

\* lines 600-626: the ComparisonResult that performPairComparison returns
ComparisonResult(pair) ==
    [metadata |-> Metadata(pair),
     details |-> parseAndCompareNem12(pair.before.file.content,
                                      pair.after.file.content,
                                      pair.before.name, pair.after.name)]

\* lines 497-519: the result that handleCompare records for a failed pair
ErrorResult(pair, errorMessage) ==
    [metadata |-> Metadata(pair),
     details |-> <<[sr |-> 1, issue_type |-> "ERROR", nmi |-> "",
                    record_type |-> "", channel |-> "", date |-> "",
                    field_name |-> "", after_cell_location |-> "",
                    before_value |-> "", after_value |-> "",
                    details |-> "Comparison failed: " \o errorMessage]>>]

\* an element of this.pairResults: the pair (its position in this.filePairs)
\* and its result; late records whether 300 seconds had passed since the
\* pair was started when its outcome was pushed
ResultEntry(n, result, late) ==
    [pair |-> n, result |-> result, late |-> late]

TimeoutMessage == "Comparison timeout after 5 minutes"

\* the loop of lines 469-526 from iteration i (counted from 1) up to the
\* first pair that passes the size check and so awaits its first file read,
\* or up to the end of the loop: a pair that fails the size check rejects
\* without any await, and its error result is pushed in the same task
RECURSIVE RunLoop(_, _, _)
RunLoop(enabledPairs, i, results) ==
    IF i > Len(enabledPairs)
    THEN [i |-> i, results |-> results, awaiting |-> FALSE]
    ELSE LET pair == filePairs[enabledPairs[i]]
         IN  IF SizeError(pair) # ""
             THEN RunLoop(enabledPairs, i + 1,
                          Append(results,
                                 ResultEntry(enabledPairs[i],
                                             ErrorResult(pair, SizeError(pair)),
                                             FALSE)))
             ELSE [i |-> i, results |-> results, awaiting |-> TRUE]

\* an activation of performPairComparison that awaits its first file read;
\* abandoned: the timer has settled the Promise.race it is part of;
\* overtaken: a later pair of the run existed when it was abandoned;
\* worked: it has started a file read after it was abandoned
NewTask(r, n) ==
    [run |-> r, pair |-> n, stage |-> "readBefore", abandoned |-> FALSE,
     overtaken |-> FALSE, worked |-> FALSE]

\* handleCompare of activation r goes on after an outcome was pushed (or at
\* its start): the loop runs from iteration `from` on; at its end come the
\* display of the results and the finally block (lines 528-559)
Proceed(runsNow, r, tasksNow, results, from, disabledNow) ==
    LET loop == RunLoop(runsNow[r].enabledPairs, from, results)
    IN  /\ pairResults' = loop.results
        /\ IF loop.awaiting
           THEN /\ runs' = [runsNow EXCEPT ![r].i = loop.i]
                /\ tasks' = tasksNow
                        \cup {NewTask(r, runsNow[r].enabledPairs[loop.i])}
                /\ compareBtnDisabled' = disabledNow
           ELSE /\ runs' = [runsNow EXCEPT ![r].i = loop.i,
                                           ![r].state = "finished",
                                           ![r].atEnd = loop.results]
                /\ tasks' = tasksNow
                /\ compareBtnDisabled' = FALSE

\* the state after handleFileSelection has matched the selected files into
\* pairs: every pair is enabled and so is the compare button
InitBatch ==
    /\ \E files \in [1..NumPairs -> PairFiles] :
        filePairs = [n \in 1..NumPairs |-> FilePair(n, files[n])]
    /\ compareBtnDisabled = FALSE
    /\ pairResults = <<>>
    /\ runs = <<>>
    /\ tasks = {}
    /\ CompareIdle
    /\ ScanIdle
    /\ FileIdle
    /\ ExportIdle
    /\ MatchIdle

\* lines 448-486: a click on the enabled compare button starts handleCompare,
\* which runs up to its first await.  With no pair enabled it shows an alert
\* and returns (lines 450-453), which changes nothing of the state.
HandleCompare ==
    /\ ~compareBtnDisabled
    /\ Len(runs) < MaxRuns
    /\ LET enabledPairs == EnabledPairs(filePairs, 1)
           run == [enabledPairs |-> enabledPairs, i |-> 0,
                   state |-> "awaiting", atEnd |-> <<>>]
       IN  /\ enabledPairs # <<>>
           /\ Proceed(Append(runs, run), Len(runs) + 1, tasks, <<>>, 1, TRUE)
    /\ UNCHANGED filePairs
    /\ UNCHANGED <<compareVars, scanVars, fileVars, exportVars, matchVars>>

\* lines 580-587: the read of the BEFORE file completes and the read of the
\* AFTER file is started
ReadBeforeLoaded(t) ==
    /\ t.stage = "readBefore"
    /\ filePairs[t.pair].before.file.readable
    /\ tasks' = (tasks \ {t})
            \cup {[t EXCEPT !.stage = "readAfter", !.worked = t.abandoned]}
    /\ UNCHANGED <<filePairs, compareBtnDisabled, pairResults, runs>>
    /\ UNCHANGED <<compareVars, scanVars, fileVars, exportVars, matchVars>>

\* lines 586-626 and 487-490: the read of the AFTER file completes, the
\* contents are checked and compared, and handleCompare pushes the outcome
\* and goes on.  parseAndCompareNem12 runs synchronously: when it takes so
\* long that the 300 seconds pass meanwhile (long), the timer callback still
\* has to wait for the task to end, and the race is settled by the result.
\* The outcome of an abandoned activation is dropped.
ReadAfterLoaded(t, long) ==
    /\ t.stage = "readAfter"
    /\ filePairs[t.pair].after.file.readable
    /\ LET pair == filePairs[t.pair]
           errorMessage == ValidateContent(pair)
           result == IF errorMessage # "" THEN ErrorResult(pair, errorMessage)
                     ELSE ComparisonResult(pair)
       IN  /\ long => errorMessage = ""
           /\ IF ~t.abandoned
              THEN Proceed(runs, t.run, tasks \ {t},
                           Append(pairResults, ResultEntry(t.pair, result, long)),
                           runs[t.run].i + 1, compareBtnDisabled)
              ELSE /\ ~long
                   /\ tasks' = tasks \ {t}
                   /\ UNCHANGED <<compareBtnDisabled, pairResults, runs>>
    /\ UNCHANGED filePairs
    /\ UNCHANGED <<compareVars, scanVars, fileVars, exportVars, matchVars>>

\* lines 580-590 and 492-521: a file read fails
ReadFailed(t) ==
    /\ LET pair == filePairs[t.pair]
           side == IF t.stage = "readBefore" THEN "BEFORE" ELSE "AFTER"
           info == IF t.stage = "readBefore" THEN pair.before ELSE pair.after
       IN  /\ ~info.file.readable
           /\ IF ~t.abandoned
              THEN Proceed(runs, t.run, tasks \ {t},
                           Append(pairResults,
                                  ResultEntry(t.pair,
                                              ErrorResult(pair, ReadError(side, info)),
                                              FALSE)),
                           runs[t.run].i + 1, compareBtnDisabled)
              ELSE /\ tasks' = tasks \ {t}
                   /\ UNCHANGED <<compareBtnDisabled, pairResults, runs>>
    /\ UNCHANGED filePairs
    /\ UNCHANGED <<compareVars, scanVars, fileVars, exportVars, matchVars>>

\* lines 482-484 and 492-521: 300 seconds after the pair was started, while
\* its activation t of performPairComparison awaits a file read, the timer
\* callback rejects the race; the activation is not cancelled
TimerFires(t) ==
    /\ ~t.abandoned
    /\ LET r == t.run
           left == [t EXCEPT !.abandoned = TRUE,
                             !.overtaken = runs[r].i < Len(runs[r].enabledPairs)]
       IN  Proceed(runs, r, (tasks \ {t}) \cup {left},
                   Append(pairResults,
                          ResultEntry(t.pair,
                                      ErrorResult(filePairs[t.pair], TimeoutMessage),
                                      TRUE)),
                   runs[r].i + 1, compareBtnDisabled)
    /\ UNCHANGED filePairs
    /\ UNCHANGED <<compareVars, scanVars, fileVars, exportVars, matchVars>>

\* lines 432-446, what updateCompareButtonState does to the button
UpdateCompareButtonState(pairs) == EnabledPairs(pairs, 1) = <<>>

\* lines 410-417.  The selection is changed only while a further start of
\* handleCompare is within the bound MaxRuns.
TogglePair(n) ==
    /\ Len(runs) < MaxRuns
    /\ filePairs' = [filePairs EXCEPT ![n].enabled = ~filePairs[n].enabled]
    /\ compareBtnDisabled' = UpdateCompareButtonState(filePairs')
    /\ UNCHANGED <<pairResults, runs, tasks>>
    /\ UNCHANGED <<compareVars, scanVars, fileVars, exportVars, matchVars>>

\* lines 402-408
SelectAllPairs(select) ==
    /\ Len(runs) < MaxRuns
    /\ filePairs' = [n \in 1..Len(filePairs) |->
                        [filePairs[n] EXCEPT !.enabled = select]]
    /\ filePairs' # filePairs
    /\ compareBtnDisabled' = UpdateCompareButtonState(filePairs')
    /\ UNCHANGED <<pairResults, runs, tasks>>
    /\ UNCHANGED <<compareVars, scanVars, fileVars, exportVars, matchVars>>

NextBatch ==
    \/ HandleCompare
    \/ \E t \in tasks : ReadBeforeLoaded(t)
    \/ \E t \in tasks, long \in BOOLEAN : ReadAfterLoaded(t, long)
    \/ \E t \in tasks : ReadFailed(t)
    \/ \E t \in tasks : TimerFires(t)
    \/ \E n \in 1..Len(filePairs) : TogglePair(n)
    \/ \E select \in BOOLEAN : SelectAllPairs(select)

SpecBatch == InitBatch /\ [][NextBatch]_vars

\* The timer of line 482 is a macrotask of the event loop, which runs it once
\* its 300 seconds have passed: the timer of the pair a run awaits fires
\* unless the race is settled before.  A file read is under no such
\* condition: it may never complete.
TimerOfRunFires(r) == \E t \in tasks : t.run = r /\ TimerFires(t)

SpecBatchFair ==
    SpecBatch /\ \A r \in 1..MaxRuns : WF_vars(TimerOfRunFires(r))

----------------------------------------------------------------------------
(* handleFileSelection and autoMatchFiles (lines 106-228 and 371-400).  An
   optional field of FileInfo that is undefined is the empty string here:
   the program only tests such a field for truthiness or compares it after
   that test. *)

\* index of the last occurrence of character c in s at or before i, 0 if none
RECURSIVE LastIndexOf(_, _, _)
LastIndexOf(s, c, i) ==
    IF i < 1 THEN 0
    ELSE IF Char(s, i) = c THEN i
    ELSE LastIndexOf(s, c, i - 1)

\* filename.replace(/\.[^/.]+$/, '')
RemoveExtension(filename) ==
    LET dot == LastIndexOf(filename, ".", Len(filename))
    IN  IF dot # 0 /\ dot < Len(filename) /\ FindChar(filename, "/", dot) = 0
        THEN SubSeq(filename, 1, dot - 1)
        ELSE filename

\* /^[A-Z0-9]{8,12}$/i
IsNmi(part) ==
    /\ Len(part) \in 8..12
    /\ \A i \in 1..Len(part) :
        \/ IsDigit(Char(part, i))
        \/ FindChar(LowerCaseLetters, Char(part, i), 1) # 0
        \/ FindChar(UpperCaseLetters, Char(part, i), 1) # 0

\* parts.slice(0, end).join('_') from part i on
RECURSIVE JoinParts(_, _, _)
JoinParts(parts, i, end) ==
    IF i > end THEN ""
    ELSE parts[i] \o (IF i < end THEN "_" ELSE "") \o JoinParts(parts, i + 1, end)

\* lines 141-153: the report name, the parts in front of the NMI when there
\* is one, otherwise those in front of where it was looked for
ReportNameOf(parts, nmiIndex, nmi) ==
    IF nmi # ""
    THEN JoinParts(parts, 1,
                   (CHOOSE i \in 1..Len(parts) :
                        parts[i] = nmi /\ \A j \in 1..(i - 1) : parts[j] # nmi) - 1)
    ELSE IF nmiIndex > 0 THEN JoinParts(parts, 1, nmiIndex)
    ELSE ""

\* lines 130-139: the NMI, looked for at the 0-based index nmiIndex
NmiOf(parts, nmiIndex) ==
    IF nmiIndex >= 0 /\ IsNmi(parts[nmiIndex + 1]) THEN parts[nmiIndex + 1] ELSE ""

\* lines 130-153, with the event type and the date range found
FileInfoWith(filename, parts, eventType, dateRange, nmiIndex) ==
    [name |-> filename, eventType |-> eventType,
     nmi |-> NmiOf(parts, nmiIndex),
     reportName |-> ReportNameOf(parts, nmiIndex, NmiOf(parts, nmiIndex)),
     dateRange |-> dateRange]

\* lines 119-122: the event type that the last part states
EventTypeOf(lastPart) == IF lastPart \in {"BEFORE", "AFTER"} THEN lastPart ELSE ""

\* lines 124-128: the date range that the second to last part states
DateRangeOf(datePart) ==
    IF FindChar(datePart, "-", 1) # 0 /\ Len(datePart) >= 15 THEN datePart ELSE ""

\* lines 116-154, for the parts of the name without extension
FileInfoOfParts(filename, parts, dateRange) ==
    IF Len(parts) >= 4
    THEN FileInfoWith(filename, parts,
                      EventTypeOf(ToUpperCase(parts[Len(parts)])), dateRange,
                      Len(parts) - (IF dateRange # "" THEN 3 ELSE 2))
    ELSE [name |-> filename, eventType |-> "", nmi |-> "",
          reportName |-> "", dateRange |-> ""]

\* the parts of a file name without its extension
PartsOf(filename) == Split(RemoveExtension(filename), "_")

\* lines 106-156
parseFileName(filename) ==
    FileInfoOfParts(filename, PartsOf(filename),
                    IF Len(PartsOf(filename)) >= 4
                    THEN DateRangeOf(PartsOf(filename)[Len(PartsOf(filename)) - 1])
                    ELSE "")

\* lines 220-228
inferEventType(beforeInfos, afterInfos) ==
    IF Len(beforeInfos) <= Len(afterInfos) THEN "BEFORE" ELSE "AFTER"

\* String.prototype.includes
IncludesWord(s, word) ==
    \E i \in 1..(Len(s) - Len(word) + 1) : SubSeq(s, i, i + Len(word) - 1) = word

\* lines 174-185: the event type of a file whose name does not end with it
EventTypeFor(nameUpper, beforeInfos, afterInfos) ==
    IF IncludesWord(nameUpper, "BEFORE") THEN "BEFORE"
    ELSE IF IncludesWord(nameUpper, "AFTER") THEN "AFTER"
    ELSE inferEventType(beforeInfos, afterInfos)

\* lines 167-185: the FileInfo of a selected file, with its event type
WithEventType(fileInfo, beforeInfos, afterInfos) ==
    IF fileInfo.eventType # "" THEN fileInfo
    ELSE [fileInfo EXCEPT !.eventType =
            EventTypeFor(ToUpperCase(fileInfo.name), beforeInfos, afterInfos)]

\* some entry of the list has the name
HasName(infos, name) == \E i \in 1..Len(infos) : infos[i].name = name

\* lines 187-198: the FileInfo is added to the list of its event type,
\* unless that list holds its name
AddFile(fileInfo, beforeInfos, afterInfos) ==
    IF fileInfo.eventType = "BEFORE"
    THEN [before |-> IF HasName(beforeInfos, fileInfo.name) THEN beforeInfos
                     ELSE Append(beforeInfos, fileInfo),
          after |-> afterInfos]
    ELSE [before |-> beforeInfos,
          after |-> IF HasName(afterInfos, fileInfo.name) THEN afterInfos
                    ELSE Append(afterInfos, fileInfo)]

\* lines 166-199: the loop over the selected files from file i on
RECURSIVE AddFiles(_, _, _)
AddFiles(files, i, lists) ==
    IF i > Len(files) THEN lists
    ELSE AddFiles(files, i + 1,
                  AddFile(WithEventType(parseFileName(files[i]),
                                        lists.before, lists.after),
                          lists.before, lists.after))

\* lines 377-385: the callback of find
Matches(beforeInfo, afterInfo, usedAfterFiles) ==
    /\ afterInfo.name \notin usedAfterFiles
    /\ beforeInfo.nmi # "" /\ afterInfo.nmi # "" /\ beforeInfo.nmi = afterInfo.nmi
    /\ beforeInfo.reportName # "" /\ afterInfo.reportName # ""
    /\ ToUpperCase(beforeInfo.reportName) = ToUpperCase(afterInfo.reportName)
    /\ \/ beforeInfo.dateRange = "" \/ afterInfo.dateRange = ""
       \/ beforeInfo.dateRange = afterInfo.dateRange

\* lines 376-385: the position of the first matching entry of
\* this.afterFileInfos at or after j, 0 when find returns undefined
RECURSIVE FindMatch(_, _, _, _)
FindMatch(beforeInfo, afterInfos, j, usedAfterFiles) ==
    IF j > Len(afterInfos) THEN 0
    ELSE IF Matches(beforeInfo, afterInfos[j], usedAfterFiles) THEN j
    ELSE FindMatch(beforeInfo, afterInfos, j + 1, usedAfterFiles)

\* lines 387-394: the pair of a BEFORE file and its match
NewPair(beforeInfo, match, pairs) ==
    [before |-> beforeInfo, after |-> match,
     id |-> "pair_" \o ToString(Len(pairs) + 1), enabled |-> TRUE]

\* lines 387-395, for the position found of the match
WithMatch(beforeInfo, afterInfos, found, state) ==
    IF found = 0 THEN state
    ELSE [pairs |-> Append(state.pairs,
                           NewPair(beforeInfo, afterInfos[found], state.pairs)),
          usedAfterFiles |-> state.usedAfterFiles \cup {afterInfos[found].name}]

\* lines 375-396: the loop over this.beforeFileInfos from entry i on
RECURSIVE MatchLoop(_, _, _, _)
MatchLoop(beforeInfos, afterInfos, i, state) ==
    IF i > Len(beforeInfos) THEN state.pairs
    ELSE MatchLoop(beforeInfos, afterInfos, i + 1,
                   WithMatch(beforeInfos[i], afterInfos,
                             FindMatch(beforeInfos[i], afterInfos, 1,
                                       state.usedAfterFiles),
                             state))

\* lines 371-400
autoMatchFiles(beforeInfos, afterInfos) ==
    MatchLoop(beforeInfos, afterInfos, 1, [pairs |-> <<>>, usedAfterFiles |-> {}])

\* names of files to select: a BEFORE file and two AFTER files of one
\* meter, report and period, a file of them without event type, files that
\* carry the event type inside their name, and a file without structure
FileNames ==
    {"Rep_AE69008084_20251101-20251201_BEFORE.csv",
     "Rep_AE69008084_20251101-20251201_AFTER.csv",
     "rep_AE69008084_20251101-20251201_after.txt",
     "Rep_AE69008084_20251101-20251201_v2.csv",
     "BEFORE_Rep_AE69008084_x.csv",
     "After_Rep_AE69008084_x.csv",
     "notes.txt"}

\* the selections of the file dialog: some files of different names
Selections ==
    {files \in UNION {[1..n -> FileNames] : n \in 1..MaxSelected} :
        \A i, j \in 1..Len(files) : i # j => files[i] # files[j]}

InitMatch ==
    /\ MatchIdle
    /\ BatchIdle
    /\ CompareIdle
    /\ ScanIdle
    /\ FileIdle
    /\ ExportIdle

\* lines 158-218
HandleFileSelection(files) ==
    /\ Len(beforeFileInfos) + Len(afterFileInfos) < MaxFileInfos
    /\ beforeFileInfos' =
            AddFiles(files, 1, [before |-> beforeFileInfos,
                                after |-> afterFileInfos]).before
    /\ afterFileInfos' =
            AddFiles(files, 1, [before |-> beforeFileInfos,
                                after |-> afterFileInfos]).after
    /\ filePairs' = autoMatchFiles(beforeFileInfos', afterFileInfos')
    /\ compareBtnDisabled' = UpdateCompareButtonState(filePairs')
    /\ UNCHANGED <<pairResults, runs, tasks>>
    /\ UNCHANGED <<compareVars, scanVars, fileVars, exportVars>>

NextMatch == \E files \in Selections : HandleFileSelection(files)

SpecMatch == InitMatch /\ [][NextMatch]_vars

----------------------------------------------------------------------------
(* Notions the properties below are stated with *)

\* the interval position an interval-level issue is about
IssueKey(issue) ==
    <<issue.nmi, issue.channel, issue.date, issue.after_cell_location[4]>>

\* the positions of the issues of one type in an issue list
IssuesOfType(iss, type) == {i \in 1..Len(iss) : iss[i].issue_type = type}

\* the positions of the issues of one type about one interval position
IssuesFor(iss, type, keyStr) ==
    {i \in IssuesOfType(iss, type) : IssueKey(iss[i]) = keyStr}

\* the entries of a dataset stored under one key value
EntriesFor(data, keyStr) ==
    {i \in 1..Len(data.intervals) : KeyStr(data.intervals[i].key) = keyStr}

DataKeys(data) == KeySet(Entries(data))

\* the readings the 300 rows of a file produce, in row order: each row's
\* readings are those the scan stores for it into an empty mapping, with the
\* meter context the scan has reached at that row
RECURSIVE RowReadings(_, _, _)
RowReadings(st, rows, rowNum) ==
    IF rowNum >= Len(rows) THEN <<>>
    ELSE ScanRow([st EXCEPT !.intervals = <<>>], rows[rowNum + 1], rowNum).intervals
         \o RowReadings(ScanRow(st, rows[rowNum + 1], rowNum), rows, rowNum + 1)

\* the first non-empty value among the readings of one key, "" when all of
\* them are empty
FirstNonEmpty(readings, keyStr) ==
    LET nonEmpty == {i \in 1..Len(readings) :
                        KeyStr(readings[i].key) = keyStr /\ readings[i].value # ""}
    IN  IF nonEmpty = {} THEN ""
        ELSE readings[CHOOSE i \in nonEmpty : \A j \in nonEmpty : i <= j].value

ReadingsOf == [f \in Files |-> RowReadings(ScanInit, parseCSV(f), 0)]

\* a dataset follows the duplicate-key policy for the readings of its file
FollowsDuplicatePolicy(data, readings) ==
    \A i \in 1..Len(data.intervals) :
        data.intervals[i].value =
            FirstNonEmpty(readings, KeyStr(data.intervals[i].key))

----------------------------------------------------------------------------
(* Properties *)

\* C1 (Identity): a file whose first record type is 100, compared against
\* itself, yields an empty issue list.
IdentityYieldsNoIssues ==
    (pc = "done" /\ beforeContent = afterContent
                 /\ beforeData.firstRecordType = "100")
        => issues = <<>>

\* C2 (Duplicate-key policy): for a key produced by several 300 rows of one
\* file, the dataset holds the first non-empty value in row order.
DuplicateKeyPolicy ==
    pc # "start" =>
        /\ FollowsDuplicatePolicy(beforeData, ReadingsOf[beforeContent])
        /\ FollowsDuplicatePolicy(afterData, ReadingsOf[afterContent])

\* C3 (Key uniqueness by value): no two entries of a dataset's interval
\* mapping have keys with equal (nmi, channel, date, intervalIndex).
KeyUniquenessByValue ==
    \A data \in {beforeData, afterData} :
        \A i, j \in 1..Len(data.intervals) :
            KeyStr(data.intervals[i].key) = KeyStr(data.intervals[j].key) => i = j

\* the interval positions an issue list reports with one issue type
KeysOfType(iss, type) == {IssueKey(iss[i]) : i \in IssuesOfType(iss, type)}

\* the value mismatches of an issue list: position, before_value, after_value
Mismatches(iss) ==
    {<<IssueKey(iss[i]), iss[i].before_value, iss[i].after_value>> :
        i \in IssuesOfType(iss, "VALUE_MISMATCH")}

\* C4 (Symmetry): comparing (before=Y, after=X) reports EXTRA for exactly the
\* keys that comparing (before=X, after=Y) reports MISSING and vice versa, and
\* VALUE_MISMATCH for exactly the same keys with the two values exchanged.
SwapSymmetry ==
    pc = "done" =>
        LET swapped == CompareData(afterData, beforeData,
                                   AfterFileName, BeforeFileName)
        IN  /\ KeysOfType(swapped, "EXTRA") = KeysOfType(issues, "MISSING")
            /\ KeysOfType(swapped, "MISSING") = KeysOfType(issues, "EXTRA")
            /\ Mismatches(swapped) = {<<m[1], m[3], m[2]>> : m \in Mismatches(issues)}

\* C5 (MISSING): every key of BEFORE that is absent from AFTER has exactly one
\* MISSING issue, with record_type "300", BEFORE's stored reading as
\* before_value and an empty after_value; no other key has a MISSING issue.
MissingOncePerAbsentKey ==
    pc = "done" =>
        LET absent == DataKeys(beforeData) \ DataKeys(afterData)
        IN  /\ \A k \in absent :
                /\ Cardinality(IssuesFor(issues, "MISSING", k)) = 1
                /\ \A i \in IssuesFor(issues, "MISSING", k) :
                    /\ issues[i].record_type = "300"
                    /\ issues[i].after_value = ""
                    /\ \E e \in EntriesFor(beforeData, k) :
                          issues[i].before_value = beforeData.intervals[e].value
            /\ KeysOfType(issues, "MISSING") \subseteq absent

\* C6 (EXTRA): every key of AFTER that is absent from BEFORE has exactly one
\* EXTRA issue, with record_type "300", AFTER's stored reading as after_value
\* and an empty before_value; no other key has an EXTRA issue.
ExtraOncePerNewKey ==
    pc = "done" =>
        LET new == DataKeys(afterData) \ DataKeys(beforeData)
        IN  /\ \A k \in new :
                /\ Cardinality(IssuesFor(issues, "EXTRA", k)) = 1
                /\ \A i \in IssuesFor(issues, "EXTRA", k) :
                    /\ issues[i].record_type = "300"
                    /\ issues[i].before_value = ""
                    /\ \E e \in EntriesFor(afterData, k) :
                          issues[i].after_value = afterData.intervals[e].value
            /\ KeysOfType(issues, "EXTRA") \subseteq new

\* C7 (VALUE_MISMATCH): a key present in both datasets has exactly one
\* VALUE_MISMATCH issue (field_name "IntervalValue", record_type "300", both
\* stored values) when its two stored values are not the same string, and
\* none when they are.
MismatchExactlyWhenValuesDiffer ==
    pc = "done" =>
        \A k \in DataKeys(beforeData) \cap DataKeys(afterData) :
            \A b \in EntriesFor(beforeData, k), a \in EntriesFor(afterData, k) :
                IF beforeData.intervals[b].value # afterData.intervals[a].value
                THEN /\ Cardinality(IssuesFor(issues, "VALUE_MISMATCH", k)) = 1
                     /\ \A i \in IssuesFor(issues, "VALUE_MISMATCH", k) :
                            /\ issues[i].field_name = "IntervalValue"
                            /\ issues[i].record_type = "300"
                            /\ issues[i].before_value = beforeData.intervals[b].value
                            /\ issues[i].after_value = afterData.intervals[a].value
                ELSE IssuesFor(issues, "VALUE_MISMATCH", k) = {}

\* the place of an issue type in the emission order
TypeRank(type) ==
    CASE type = "STRUCTURE" -> 1
      [] type = "MISSING" -> 2
      [] type = "EXTRA" -> 3
      [] type = "VALUE_MISMATCH" -> 4

\* the STRUCTURE issues of an issue list that name one side
StructureIssuesOf(iss, side) ==
    {i \in IssuesOfType(iss, "STRUCTURE") : iss[i].details[1] = side}

\* C8 (Emission order and numbering): the i-th issue has sr = i, and the
\* types appear in the order STRUCTURE (BEFORE side before AFTER side),
\* MISSING, EXTRA, VALUE_MISMATCH, none of an earlier type after a later one.
EmissionOrderAndNumbering ==
    /\ \A i \in 1..Len(issues) : issues[i].sr = i
    /\ \A i, j \in 1..Len(issues) :
          i < j => TypeRank(issues[i].issue_type) <= TypeRank(issues[j].issue_type)
    /\ \A i \in StructureIssuesOf(issues, "AFTER") :
          \A j \in StructureIssuesOf(issues, "BEFORE") : j < i

\* C8's case: a returned list with both STRUCTURE issues and at least one
\* issue of each interval-level type
AllIssueTypesReturned ==
    /\ pc = "done"
    /\ StructureIssuesOf(issues, "BEFORE") # {}
    /\ StructureIssuesOf(issues, "AFTER") # {}
    /\ IssuesOfType(issues, "MISSING") # {}
    /\ IssuesOfType(issues, "EXTRA") # {}
    /\ IssuesOfType(issues, "VALUE_MISMATCH") # {}

\* C10 (Structural check): for each side on its own, the list holds one
\* STRUCTURE issue naming that side and its first record type if and only if
\* that side's firstRecordType is not "100", whatever the other side holds.
StructureIssueIffNot100 ==
    pc \in {"structures", "done"} =>
        \A side \in {<<"BEFORE", beforeData>>, <<"AFTER", afterData>>} :
            LET named == StructureIssuesOf(issues, side[1])
            IN  IF side[2].firstRecordType # "100"
                THEN /\ Cardinality(named) = 1
                     /\ \A i \in named :
                            issues[i].details =
                                <<side[1], " first record is ", side[2].firstRecordType>>
                ELSE named = {}

\* C10's case (scenario E): BEFORE starts with a 200 row, AFTER with its 100
\* header, and the returned list holds one STRUCTURE issue, BEFORE's
OnlyBeforeStructureIssue ==
    /\ pc = "done"
    /\ beforeData.firstRecordType = "200"
    /\ afterData.firstRecordType = "100"
    /\ Cardinality(IssuesOfType(issues, "STRUCTURE")) = 1
    /\ StructureIssuesOf(issues, "BEFORE") # {}

----------------------------------------------------------------------------
(* Letter case of the key fields *)

\* the key of an entry as the four values the parser stored
ExactKey(key) == <<key.nmi, key.channel, key.date, key.intervalIndex>>

ExactKeys(data) ==
    {ExactKey(data.intervals[i].key) : i \in 1..Len(data.intervals)}

\* the key with its three text fields in upper case
FoldedKey(key) ==
    <<ToUpperCase(key.nmi), ToUpperCase(key.channel), ToUpperCase(key.date),
      key.intervalIndex>>

\* two keys that differ, and only in letter case
DifferOnlyInCase(a, b) == ExactKey(a) # ExactKey(b) /\ FoldedKey(a) = FoldedKey(b)

----------------------------------------------------------------------------
(* The row-by-row scan of parseNem12Structure *)

\* the record type of the r-th row of the scanned file (r counts from 1)
RowType(r) == Trim(scanInput[r][1])

\* the last 200 row before the r-th row, 0 when there is none
LastMeterRow(r) ==
    LET meterRows == {k \in 1..(r - 1) : RowType(k) = "200"}
    IN  IF meterRows = {} THEN 0
        ELSE CHOOSE k \in meterRows : \A j \in meterRows : j <= k

\* the NMI, channel and interval length that a 200 row states
NmiOfMeterRow(k) == Trim(CellOr(scanInput[k], 1, ""))
ChannelOfMeterRow(k) ==
    Trim(CellOr(scanInput[k], 4, CellOr(scanInput[k], 2, "UNKNOWN_CHANNEL")))

\* the readings stored from the r-th row, in the order they were stored
ReadingsOfRow(r) == SelectSeq(scan.intervals, LAMBDA e : e.rowNumber = r)

\* C16: every stored reading comes from a 300 row that follows a 200 row,
\* and its key carries the NMI and the channel of the last 200 row before
\* that 300 row, at the time it is stored and in every later state of the
\* scan, whatever 200 rows follow.
MeterContextAttribution ==
    \A i \in 1..Len(scan.intervals) :
        LET e == scan.intervals[i]
            k == LastMeterRow(e.rowNumber)
        IN  /\ e.rowNumber \in 1..scanPos
            /\ RowType(e.rowNumber) = "300"
            /\ k # 0
            /\ e.key.nmi = NmiOfMeterRow(k)
            /\ e.key.channel = ChannelOfMeterRow(k)

\* the scan has stored a reading under one meter, passed a 200 row of
\* another meter, and stored a reading of a later 300 row under that one
ReadingsUnderTwoMeters ==
    \E i, j \in 1..Len(scan.intervals) :
        LET e == scan.intervals[i]
            f == scan.intervals[j]
        IN  /\ e.rowNumber < f.rowNumber
            /\ LastMeterRow(e.rowNumber) < LastMeterRow(f.rowNumber)
            /\ e.key.nmi = "N" /\ e.key.channel = "E"
            /\ f.key.nmi = "M" /\ f.key.channel = "B"

\* the r-th row is a 300 row before any 200 row or after a 200 row that
\* left the NMI empty, or a row that is neither a 200 nor a 300 row
WithoutContext(r) ==
    \/ RowType(r) \notin {"200", "300"}
    \/ /\ RowType(r) = "300"
       /\ \/ LastMeterRow(r) = 0
          \/ NmiOfMeterRow(LastMeterRow(r)) = ""

\* C17: a scanned row without context has added no entry to the interval
\* mapping, and every key of the mapping has a non-empty nmi and a
\* non-empty channel.
RowsWithoutContextIgnored ==
    /\ \A r \in 1..scanPos : WithoutContext(r) => ReadingsOfRow(r) = <<>>
    /\ \A i \in 1..Len(scan.intervals) :
        /\ scan.intervals[i].key.nmi # ""
        /\ scan.intervals[i].key.channel # ""

\* a finished scan that passed a 300 row before any 200 row, a 300 row after
\* a 200 row without NMI and a 400 row, and stored nothing
ScannedRowsWithoutContext ==
    /\ scanPos = Len(scanInput)
    /\ scan.intervals = <<>>
    /\ \E r \in 1..scanPos : RowType(r) = "300" /\ LastMeterRow(r) = 0
    /\ \E r \in 1..scanPos :
        /\ RowType(r) = "300"
        /\ LastMeterRow(r) # 0
        /\ NmiOfMeterRow(LastMeterRow(r)) = ""
    /\ \E r \in 1..scanPos : RowType(r) = "400"

\* the cell of the r-th row at the source's 0-based index i, trimmed
RowCell(r, i) == Trim(scanInput[r][i + 1])

\* the largest 0-based index >= 2 of a cell of the r-th row that is a single
\* quality-flag character, -1 when there is none
LastFlagIndex(r) ==
    LET flagged == {i \in 2..(Len(scanInput[r]) - 1) :
                        RowCell(r, i) \in qualityFlags}
    IN  IF flagged = {} THEN -1
        ELSE CHOOSE i \in flagged : \A j \in flagged : j <= i

\* the r-th row is a 300 row with a date whose readings the scan extracts
ReadingRow(r) ==
    /\ RowType(r) = "300"
    /\ ~WithoutContext(r)
    /\ Len(scanInput[r]) >= 2
    /\ RowCell(r, 1) # ""

\* the interval length in force at the r-th row
IntervalLengthAt(r) ==
    LET k == LastMeterRow(r)
        intervalLen ==
            ParseInt(Trim(CellOr(scanInput[k], 8, CellOr(scanInput[k], 7, "30"))))
    IN  IF k = 0 \/ intervalLen.nan \/ intervalLen.val <= 0 THEN 30
        ELSE intervalLen.val

\* C18: for a scanned 300 row with a date (and a meter context) whose last
\* quality-flag cell has index q > 2, the readings extracted from the row
\* are exactly the cells 2..q-1 in order, with interval indexes 0..q-3; no
\* cell at index q or above gives a reading.
QualityFlagSlicing ==
    \A r \in 1..scanPos :
        LET q == LastFlagIndex(r)
            readings == ReadingsOfRow(r)
        IN  (ReadingRow(r) /\ q > 2) =>
                /\ Len(readings) = q - 2
                /\ \A n \in 1..Len(readings) :
                    /\ readings[n].key.intervalIndex = n - 1
                    /\ readings[n].value = RowCell(r, n + 1)

\* a scanned 300 row whose quality flag is followed by a further cell, the
\* cells before the flag being its readings
SlicedBeforeFlag ==
    \E r \in 1..scanPos :
        /\ ReadingRow(r)
        /\ LastFlagIndex(r) = 3
        /\ Len(scanInput[r]) = 5
        /\ Len(ReadingsOfRow(r)) = 1
        /\ ReadingsOfRow(r)[1].value = "1"

\* the expected number of intervals of a day, as C19 states it
ExpectedIntervals(intervalLength) ==
    IF intervalLength = 30 THEN 48
    ELSE Max(1, 1440 \div intervalLength)

\* C19: for a scanned 300 row (with a date and a meter context) in which no
\* quality flag is found, the number of readings extracted is
\* min(expected, rowLength - 2), and they are the cells 2 .. 2+count-1.
FallbackIntervalCount ==
    \A r \in 1..scanPos :
        LET readings == ReadingsOfRow(r)
            count == Min(ExpectedIntervals(IntervalLengthAt(r)),
                         Len(scanInput[r]) - 2)
        IN  (ReadingRow(r) /\ LastFlagIndex(r) = -1) =>
                /\ Len(readings) = count
                /\ \A n \in 1..Len(readings) :
                    /\ readings[n].key.intervalIndex = n - 1
                    /\ readings[n].value = RowCell(r, n + 1)

\* scanned 300 rows of three value cells without quality flag, one under an
\* interval length of 720 minutes, of which two cells were extracted, and
\* one under 2000 minutes, of which one cell was extracted
FallbackCountsReached ==
    /\ \E r \in 1..scanPos :
        /\ ReadingRow(r)
        /\ LastFlagIndex(r) = -1
        /\ Len(scanInput[r]) = 5
        /\ IntervalLengthAt(r) = 720
        /\ Len(ReadingsOfRow(r)) = 2
    /\ \E r \in 1..scanPos :
        /\ ReadingRow(r)
        /\ LastFlagIndex(r) = -1
        /\ Len(scanInput[r]) = 5
        /\ IntervalLengthAt(r) = 2000
        /\ Len(ReadingsOfRow(r)) = 1

\* C20: no stored reading is the cell that the scan of its row identifies
\* as the quality flag, the last quality-flag cell at index 2 or above.
NoQualityFlagStored ==
    \A i \in 1..Len(scan.intervals) :
        LET e == scan.intervals[i]
        IN  e.key.intervalIndex + 2 # LastFlagIndex(e.rowNumber)

----------------------------------------------------------------------------
(* The batch of handleCompare *)

\* a result whose issue list is exactly one ERROR issue with sr 1
IsErrorResult(result) ==
    /\ Len(result.details) = 1
    /\ result.details[1].issue_type = "ERROR"
    /\ result.details[1].sr = 1

\* the text that the ERROR issue of an error result carries
ErrorTextOf(result) == result.details[1].details

\* a file of size zero, or of empty or white-space-only content
IsEmptyFile(file) == file.size = 0 \/ Trim(file.content) = ""

\* the ERROR texts that name one side of a pair as empty
EmptySideTexts(side, info) ==
    {"Comparison failed: " \o side \o " file is empty: " \o info.name,
     "Comparison failed: " \o side \o " file content is empty: " \o info.name}

\* the ERROR texts that name an empty side of the pair
EmptyFileTexts(pair) ==
    (IF IsEmptyFile(pair.before.file)
     THEN EmptySideTexts("BEFORE", pair.before) ELSE {})
    \cup (IF IsEmptyFile(pair.after.file)
          THEN EmptySideTexts("AFTER", pair.after) ELSE {})

\* the ERROR texts of a failed read of a side of the pair whose file cannot
\* be read
ReadFailureTexts(pair) ==
    (IF ~pair.before.file.readable
     THEN {"Comparison failed: Failed to read BEFORE file ("
            \o pair.before.name \o "): [object ProgressEvent]"}
     ELSE {})
    \cup (IF ~pair.after.file.readable
          THEN {"Comparison failed: Failed to read AFTER file ("
                 \o pair.after.name \o "): [object ProgressEvent]"}
          ELSE {})

TimeoutText == "Comparison failed: Comparison timeout after 5 minutes"

\* a pair one of whose files is empty or cannot be read
HasDefect(pair) ==
    \/ IsEmptyFile(pair.before.file) \/ IsEmptyFile(pair.after.file)
    \/ ~pair.before.file.readable \/ ~pair.after.file.readable

\* the outcome recorded for a pair is either the result of comparing its two
\* readable, non-empty files, or exactly one ERROR issue with sr 1 that
\* carries the message of a failure of that pair
IsOutcomeOf(entry) ==
    LET pair == filePairs[entry.pair]
    IN  \/ /\ IsErrorResult(entry.result)
           /\ ErrorTextOf(entry.result) \in
                EmptyFileTexts(pair) \cup ReadFailureTexts(pair) \cup {TimeoutText}
        \/ /\ ~HasDefect(pair)
           /\ entry.result.details =
                parseAndCompareNem12(pair.before.file.content,
                                     pair.after.file.content,
                                     pair.before.name, pair.after.name)

\* C12: when a run of handleCompare has reached its end, pairResults holds
\* exactly one entry per pair that was enabled at the start of the run, in
\* the pairs' order, and the entry of a failed pair is exactly one ERROR
\* issue with sr 1 carrying the failure message.
PerPairFailureIsolation ==
    \A r \in 1..Len(runs) :
        runs[r].state = "finished" =>
            /\ Len(runs[r].atEnd) = Len(runs[r].enabledPairs)
            /\ \A k \in 1..Len(runs[r].atEnd) :
                /\ runs[r].atEnd[k].pair = runs[r].enabledPairs[k]
                /\ IsOutcomeOf(runs[r].atEnd[k])

\* C13: a pair whose comparison had not completed 300 seconds after it
\* started is recorded with an ERROR result, wherever the time was spent.
TimeoutRecordedAsError ==
    \A k \in 1..Len(pairResults) :
        pairResults[k].late => IsErrorResult(pairResults[k].result)

\* C14: while the only run of handleCompare awaits pair i, the outcomes of
\* the i-1 pairs before it have been appended to pairResults and only pair i
\* is being worked on: no activation of performPairComparison that timed out
\* with a later pair to come has started a file read since.
StrictlySequentialPairs ==
    /\ (Len(runs) = 1 /\ runs[1].state = "awaiting") =>
            /\ Len(pairResults) = runs[1].i - 1
            /\ \A k \in 1..Len(pairResults) :
                pairResults[k].pair = runs[1].enabledPairs[k]
    /\ \A t \in tasks : ~(t.abandoned /\ t.overtaken /\ t.worked)

\* C15 as stated: the result recorded for a pair with an empty side is
\* exactly one ERROR issue, and it names an empty side of the pair.
EmptyFileErrorNamesEmptySide ==
    \A k \in 1..Len(pairResults) :
        LET pair == filePairs[pairResults[k].pair]
        IN  (IsEmptyFile(pair.before.file) \/ IsEmptyFile(pair.after.file)) =>
                /\ IsErrorResult(pairResults[k].result)
                /\ ErrorTextOf(pairResults[k].result) \in EmptyFileTexts(pair)

\* C15 amended: the result recorded for a pair with an empty side is exactly
\* one ERROR issue (so no STRUCTURE, MISSING, EXTRA or VALUE_MISMATCH issue);
\* it names a side of size zero when there is one, and otherwise it names an
\* empty side unless a read of the pair failed or the timeout expired before
\* both reads were done, in which case it carries that failure's message.
EmptyFileErrorUnlessReadFailsOrTimeout ==
    \A k \in 1..Len(pairResults) :
        LET pair == filePairs[pairResults[k].pair]
            text == ErrorTextOf(pairResults[k].result)
        IN  (IsEmptyFile(pair.before.file) \/ IsEmptyFile(pair.after.file)) =>
                /\ IsErrorResult(pairResults[k].result)
                /\ text \in EmptyFileTexts(pair) \cup ReadFailureTexts(pair)
                                \cup {TimeoutText}
                /\ (pair.before.file.size = 0 \/ pair.after.file.size = 0) =>
                        text \in EmptyFileTexts(pair)

\* the results recorded for a pair whose AFTER file holds white space only,
\* naming the AFTER content as empty, and for a pair whose BEFORE file has
\* size zero, naming the BEFORE file as empty
EmptySidesRecorded ==
    /\ \E k \in 1..Len(pairResults) :
        LET pair == filePairs[pairResults[k].pair]
        IN  /\ pair.after.file = BlankFile
            /\ ErrorTextOf(pairResults[k].result) =
                "Comparison failed: AFTER file content is empty: " \o pair.after.name
    /\ \E k \in 1..Len(pairResults) :
        LET pair == filePairs[pairResults[k].pair]
        IN  /\ pair.before.file = ZeroFile
            /\ ErrorTextOf(pairResults[k].result) =
                "Comparison failed: BEFORE file is empty: " \o pair.before.name

----------------------------------------------------------------------------
(* The issue types of one interval key *)

IntervalIssueTypes == {"MISSING", "EXTRA", "VALUE_MISMATCH"}

\* C26: the issues of the types MISSING, EXTRA and VALUE_MISMATCH about one
\* interval key (nmi, channel, date, intervalIndex) are all of one type, and
\* every issue of these three types has record_type "300".
IssueTypesMutuallyExclusive ==
    /\ \A i, j \in 1..Len(issues) :
        (/\ issues[i].issue_type \in IntervalIssueTypes
         /\ issues[j].issue_type \in IntervalIssueTypes
         /\ IssueKey(issues[i]) = IssueKey(issues[j]))
            => issues[i].issue_type = issues[j].issue_type
    /\ \A i \in 1..Len(issues) :
        issues[i].issue_type \in IntervalIssueTypes
            => issues[i].record_type = "300"

\* a returned list with issues of all three types about three keys of one
\* meter, two of them of the same date
ThreeTypesOnThreeKeys ==
    /\ pc = "done"
    /\ \E i, j, k \in 1..Len(issues) :
        /\ issues[i].issue_type = "MISSING"
        /\ issues[j].issue_type = "EXTRA"
        /\ issues[k].issue_type = "VALUE_MISMATCH"
        /\ issues[i].nmi = issues[j].nmi /\ issues[j].nmi = issues[k].nmi
        /\ issues[i].date = issues[k].date
        /\ IssueKey(issues[i]) # IssueKey(issues[k])
        /\ IssueKey(issues[j]) # IssueKey(issues[k])

----------------------------------------------------------------------------
(* Re-entrancy of handleCompare *)

\* the activations of handleCompare that have not reached their finally block
RunsInProgress == {r \in 1..Len(runs) : runs[r].state = "awaiting"}

\* C27: while an activation of handleCompare has not reached its finally
\* block the compare button is disabled, and no second activation is in
\* progress beside it.
NoReentrantRun ==
    /\ RunsInProgress # {} => compareBtnDisabled
    /\ Cardinality(RunsInProgress) <= 1

----------------------------------------------------------------------------
(* The end of a run of handleCompare *)

\* the step in which activation r of handleCompare reaches its finally block
ReachesFinally(r) ==
    /\ r \in 1..Len(runs)
    /\ runs[r].state = "awaiting"
    /\ runs'[r].state = "finished"

\* every activation of handleCompare reaches its finally block, even when
\* no file read ever completes
RunTerminates ==
    \A r \in 1..MaxRuns :
        (r \in RunsInProgress) ~> (r \in 1..Len(runs) /\ runs[r].state = "finished")

\* C28: the step in which a run of handleCompare reaches its finally block
\* leaves the compare button enabled and pairResults with one result for
\* each pair that was enabled at the start of the run, in the pairs' order.
RunEndsWithOneResultPerPair ==
    [][\A r \in 1..MaxRuns :
        ReachesFinally(r) =>
            /\ ~compareBtnDisabled'
            /\ Len(pairResults') = Len(runs[r].enabledPairs)
            /\ \A k \in 1..Len(pairResults') :
                pairResults'[k].pair = runs[r].enabledPairs[k]]_vars

----------------------------------------------------------------------------
(* The tokenized and scanned file *)

\* the lines of the file, and the positions of those that are not blank
LinesOfFile == SplitLines(fileContent)
NonBlankLines == {i \in 1..Len(LinesOfFile) : Trim(LinesOfFile[i]) # ""}

\* the 1-based number in the file of the line that the k-th row came from
LineOfRow(k) ==
    CHOOSE i \in NonBlankLines : Cardinality({j \in NonBlankLines : j <= i}) = k

\* C21: once the first row of the file has been scanned, firstRecordType is
\* cell 0 of the first non-blank line of the file, and remains so whatever
\* rows are scanned later.
FirstRecordTypeOfFirstLine ==
    (filePos = "tokenized" /\ scanPos >= 1) => scan.firstRecordType = RowType(1)

\* C22: the row number stored with a reading is the 1-based number in the
\* file of the line of the 300 row that the reading came from.
SourceRowIsFileLine ==
    filePos = "tokenized" =>
        \A i \in 1..Len(scan.intervals) :
            scan.intervals[i].rowNumber = LineOfRow(scan.intervals[i].rowNumber)

\* the non-blank lines of the file, in order
NonBlankLinesOfFile == SelectSeq(LinesOfFile, LAMBDA l : Trim(l) # "")

\* the candidate with the strictly highest number of occurrences in a line,
\* the earlier candidate of the list on a tie
ChosenDelimiter(line) ==
    LET cnt == [i \in 1..Len(delimiters) |-> CountChar(line, delimiters[i], 1)]
        best == CHOOSE i \in 1..Len(delimiters) :
                    /\ \A j \in 1..(i - 1) : cnt[j] < cnt[i]
                    /\ \A j \in (i + 1)..Len(delimiters) : cnt[j] <= cnt[i]
    IN  delimiters[best]

\* C23: the rows that parseCSV returns are the non-blank lines of the file
\* in order, every one of them split at the one delimiter chosen from the
\* first non-blank line (the comma when no candidate occurs in it).
OneDelimiterFromFirstLine ==
    filePos = "tokenized" =>
        LET lines == NonBlankLinesOfFile
            delimiter == IF lines = <<>> THEN "," ELSE ChosenDelimiter(lines[1])
        IN  /\ Len(scanInput) = Len(lines)
            /\ \A k \in 1..Len(scanInput) :
                LET cells == Split(lines[k], delimiter)
                IN  scanInput[k] = [i \in 1..Len(cells) |-> ParseCell(cells[i])]

\* a tokenized file whose first non-blank line holds as many semicolons as
\* commas, so that the comma is chosen, and a later line of which holds
\* more pipes than commas and was split at its commas all the same
TieThenLineOfOtherDelimiter ==
    /\ filePos = "tokenized"
    /\ LET lines == NonBlankLinesOfFile
       IN  /\ lines # <<>>
           /\ CountChar(lines[1], ",", 1) > 0
           /\ CountChar(lines[1], ",", 1) = CountChar(lines[1], ";", 1)
           /\ \E k \in 2..Len(scanInput) :
                /\ CountChar(lines[k], "|", 1) > CountChar(lines[k], ",", 1)
                /\ Len(scanInput[k]) = CountChar(lines[k], ",", 1) + 1

\* the last 200 row among the rows scanned so far, 0 when there is none
MeterRowScanned == LastMeterRow(scanPos + 1)

\* the cell of 0-based index i of the k-th row, "" when the row is shorter
CellAt(k, i) == IF i + 1 <= Len(scanInput[k]) THEN scanInput[k][i + 1] ELSE ""

\* C24: after a 200 row the current channel is the row's cell 4 if that is
\* not empty, otherwise its cell 2 if that is not empty, otherwise
\* "UNKNOWN_CHANNEL" (surrounding white space removed), and it is not empty.
ChannelFallbackNeverEmpty ==
    (filePos = "tokenized" /\ MeterRowScanned # 0) =>
        LET k == MeterRowScanned
            stated == IF CellAt(k, 4) # "" THEN CellAt(k, 4)
                      ELSE IF CellAt(k, 2) # "" THEN CellAt(k, 2)
                      ELSE "UNKNOWN_CHANNEL"
        IN  /\ scan.currentChannel = Trim(stated)
            /\ scan.currentChannel # ""

\* C25: after a 200 row the current interval length is the integer parsed
\* from the row's cell 8 if that is not empty, otherwise from its cell 7 if
\* that is not empty, otherwise 30, and 30 when the parsed value is
\* unparseable, zero or negative; it is a positive integer in every state.
IntervalLengthFallback ==
    /\ scan.intervalLength \in Nat \ {0}
    /\ (filePos = "tokenized" /\ MeterRowScanned # 0) =>
        LET k == MeterRowScanned
            stated == IF CellAt(k, 8) # "" THEN CellAt(k, 8)
                      ELSE IF CellAt(k, 7) # "" THEN CellAt(k, 7)
                      ELSE "30"
            parsed == ParseInt(stated)
        IN  scan.intervalLength =
                IF parsed.nan \/ parsed.val < 1 THEN 30 ELSE parsed.val

\* a scan that took the interval length 5 from cell 8 of a 200 row whose
\* cell 7 states 15, and then 30 at a second 200 row whose cell 8 is
\* unparseable although its cell 7 states a length
IntervalLengthTakenAndReplaced ==
    /\ filePos = "tokenized"
    /\ scanPos = 2
    /\ RowType(1) = "200" /\ RowType(2) = "200"
    /\ CellAt(1, 8) = "5" /\ CellAt(1, 7) = "15"
    /\ CellAt(2, 8) # "" /\ ParseInt(CellAt(2, 8)).nan
    /\ ~ParseInt(CellAt(2, 7)).nan
    /\ scan.intervalLength = 30
    /\ scan.currentNmi = "N"

----------------------------------------------------------------------------
(* The exported text read back *)

\* position of the first comma or line feed of s at or after i, Len(s) + 1
\* when there is none
EndOfPlainField(s, i) ==
    LET c == IndexIn(s, ",", i, Len(s))
        n == IndexIn(s, "\n", i, Len(s))
    IN  IF c = 0 /\ n = 0 THEN Len(s) + 1
        ELSE IF c = 0 THEN n
        ELSE IF n = 0 THEN c
        ELSE Min(c, n)

\* a quoted field read from position i, just after its opening quote or
\* after a doubled quote inside it: a doubled quote stands for one quote, a
\* single quote closes the field; next is the position after the field
RECURSIVE ReadQuoted(_, _, _)
ReadQuoted(s, i, acc) ==
    LET k == IndexIn(s, "\"", i, Len(s))
    IN  IF k = 0 THEN [value |-> acc \o SubSeq(s, i, Len(s)), next |-> Len(s) + 1]
        ELSE IF k < Len(s) /\ Char(s, k + 1) = "\""
        THEN ReadQuoted(s, k + 2, acc \o SubSeq(s, i, k))
        ELSE [value |-> acc \o SubSeq(s, i, k - 1),
              next |-> EndOfPlainField(s, k + 1)]

\* the field that starts at position i
ReadField(s, i) ==
    IF i <= Len(s) /\ Char(s, i) = "\""
    THEN ReadQuoted(s, i + 1, "")
    ELSE [value |-> SubSeq(s, i, EndOfPlainField(s, i) - 1),
          next |-> EndOfPlainField(s, i)]

\* the record that starts at position i, row being its fields read so far;
\* next is the position after the line feed that ends it
RECURSIVE ReadRecord(_, _, _)
ReadRecord(s, i, row) ==
    LET f == ReadField(s, i)
    IN  IF f.next > Len(s) \/ Char(s, f.next) = "\n"
        THEN [fields |-> Append(row, f.value), next |-> f.next + 1]
        ELSE ReadRecord(s, f.next + 1, Append(row, f.value))

\* the records of a CSV text from position i on
RECURSIVE ReadRecords(_, _)
ReadRecords(s, i) ==
    IF i > Len(s) THEN <<>>
    ELSE LET r == ReadRecord(s, i, <<>>)
         IN  <<r.fields>> \o ReadRecords(s, r.next)

\* the number of records in front of the detail rows: five of metadata, the
\* blank separator, the column header
HeaderRecords == 7

\* the eleven field values of an issue, as strings
FieldValues(detail) ==
    <<ToString(detail.sr), detail.issue_type, detail.nmi, detail.record_type,
      detail.channel, detail.date, detail.field_name,
      LocationText(detail.after_cell_location), detail.before_value,
      detail.after_value, DetailsText(detail)>>

\* C29: the exported text, read back under CSV quoting rules, holds after
\* its header one record per issue, of exactly 11 columns that carry the
\* issue's field values.
ExportRowsKeepSchema ==
    csvContent # "" =>
        LET records == ReadRecords(csvContent, 1)
        IN  /\ Len(records) = HeaderRecords + Len(issues)
            /\ \A k \in 1..Len(issues) :
                /\ Len(records[HeaderRecords + k]) = 11
                /\ records[HeaderRecords + k] = FieldValues(issues[k])

----------------------------------------------------------------------------
(* The pairs of autoMatchFiles *)

\* C30: no BEFORE file and no AFTER file is in two pairs, no file name is
\* on the BEFORE side of a pair and on the AFTER side of a pair, and the
\* ids of the pairs differ from one another.
PairingOneToOne ==
    /\ \A i, j \in 1..Len(filePairs) :
        i # j => /\ filePairs[i].before.name # filePairs[j].before.name
                 /\ filePairs[i].after.name # filePairs[j].after.name
                 /\ filePairs[i].id # filePairs[j].id
    /\ \A i, j \in 1..Len(filePairs) :
        filePairs[i].before.name # filePairs[j].after.name

============================================================================
